---------------------------- MODULE Spec2Model ----------------------------
(***************************************************************************)
(* A model of four parts of the toolkit:                                   *)
(*   - the rectangle fragment shader (rectangle_es.frag),                  *)
(*   - the localisation package (lang/lang.go),                            *)
(*   - the build command (commands, Builder.build),                        *)
(*   - the painter's clip stack.                                           *)
(* Each part has its own variables, its own initial predicate and its own  *)
(* next-state relation; a specification of one part leaves the variables   *)
(* of the other parts unchanged.                                           *)
(***************************************************************************)
EXTENDS Integers, Sequences, FiniteSets, TLC

VARIABLES
    \* ---- rectangle shader ----
    viewport,       \* the render target, in device pixels: [w, h]
    uniforms,       \* the shader's uniforms as last set by a draw
    framebuffer,    \* pixel <<i, j>> (j counted from the bottom) -> colour
    frame_state,    \* "cleared" | "drawn"
    \* ---- lang ----
    languageOrder,      \* lang.go:41
    preferredLanguage,  \* lang.go:43
    translated,         \* lang.go:50
    localizer,          \* lang.go:46
    sysLocales,         \* what locale.GetLocales returned last: [all, err]
    lastCall,           \* the last exported call: its inputs and what it returned
    panicked,           \* a run-time panic has unwound the goroutine
    \* ---- lang: Localize* ----
    localized,          \* the last Localize* call: inputs, localizer outcome, result
    \* ---- build command ----
    built,              \* the last Builder.build: the Builder, its locals, the runner's log
    \* ---- clip stack ----
    clips,              \* the stack of clip items, innermost last
    popped              \* the last pop: the clip it left and the clip before the push

shaderVars == <<viewport, uniforms, framebuffer, frame_state>>
langVars == <<languageOrder, preferredLanguage, translated, localizer, sysLocales,
              lastCall, panicked>>
localizeVars == <<localized>>
buildVars == <<built>>
clipVars == <<clips, popped>>
vars == <<shaderVars, langVars, localizeVars, buildVars, clipVars>>

Min(a, b) == IF a <= b THEN a ELSE b
Max(a, b) == IF a >= b THEN a ELSE b

(***************************************************************************)
(* The rectangle fragment shader.                                          *)
(*                                                                         *)
(* Every shader quantity (gl_FragCoord, frame_size, rect_coords,           *)
(* stroke_width) is a fixed-point number with one fractional bit: the      *)
(* integer n stands for n/2 device pixels.  A pixel centre i + 0.5 is the  *)
(* integer 2i + 1, so that the shader's comparisons are exact.             *)
(***************************************************************************)

\* Bounds of the inputs enumerated.
MaxDim == 3
MaxStroke == 2

Colors == {"red", "black"}

\* The frames drawn into: every small frame, and the 100x50 frame of the scenario.
Viewports ==
    {[w |-> w, h |-> h] : w \in 1..MaxDim, h \in 1..MaxDim} \cup {[w |-> 100, h |-> 50]}

\* Rectangles with integer bounds x1 < x2, y1 < y2 (top-left origin) inside
\* the frame: every one in a small frame; in the frame of the scenario the
\* one that fills it and one that touches none of its edges.
Rects(vp) ==
    IF vp.w <= MaxDim /\ vp.h <= MaxDim
    THEN {r \in [x1 : 0..vp.w, x2 : 0..vp.w, y1 : 0..vp.h, y2 : 0..vp.h] :
            r.x1 < r.x2 /\ r.y1 < r.y2}
    ELSE {[x1 |-> 0, x2 |-> vp.w, y1 |-> 0, y2 |-> vp.h],
          [x1 |-> 10, x2 |-> 60, y1 |-> 5, y2 |-> 20]}

\* Stroke widths, in half pixels: 0, 0.5, 1, ... MaxStroke pixels, and the
\* 25 pixels that are half the height of the scenario's rectangle.
StrokeWidths == 0..(2 * MaxStroke) \cup {2 * 25}

Pixels(vp) == (0..(vp.w - 1)) \X (0..(vp.h - 1))

\* The uniforms a draw of rectangle r sets ("scaled params"): vec4 frame_size
\* with width = x, height = y, and vec4 rect_coords = x1, x2, y1, y2 (the
\* shader's indices 0..3 are 1..4 here).
Uniforms(vp, r, sw, fill, stroke) ==
    [frame_size |-> [x |-> 2 * vp.w, y |-> 2 * vp.h],
     rect_coords |-> <<2 * r.x1, 2 * r.x2, 2 * r.y1, 2 * r.y2>>,
     stroke_width |-> sw,
     fill_color |-> fill,
     stroke_color |-> stroke]

\* gl_FragCoord of the fragment of pixel p: its centre, y from the bottom.
FragCoord(p) == [x |-> 2 * p[1] + 1, y |-> 2 * p[2] + 1]

\* The fragments the rasteriser generates for the rectangle: the pixels whose
\* centre lies inside it, the rectangle's y1, y2 being measured from the top.
Fragments(vp, r) ==
    {p \in Pixels(vp) :
        /\ r.x1 <= p[1] /\ p[1] < r.x2
        /\ vp.h - r.y2 <= p[2] /\ p[2] < vp.h - r.y1}

\* A mutant of main: the two vertical tests forget that gl_FragCoord.y is
\* measured from the bottom of the frame.
main_noflip(gl_FragCoord, u) ==
    IF gl_FragCoord.x >= u.rect_coords[2] - u.stroke_width THEN u.stroke_color
    ELSE IF gl_FragCoord.x <= u.rect_coords[1] + u.stroke_width THEN u.stroke_color
    ELSE IF gl_FragCoord.y <= u.rect_coords[3] + u.stroke_width THEN u.stroke_color
    ELSE IF gl_FragCoord.y >= u.rect_coords[4] - u.stroke_width THEN u.stroke_color
    ELSE u.fill_color

\* A mutant of main: the test of the top edge leaves the stroke width out.
main_thintop(gl_FragCoord, u) ==
    IF gl_FragCoord.x >= u.rect_coords[2] - u.stroke_width THEN u.stroke_color
    ELSE IF gl_FragCoord.x <= u.rect_coords[1] + u.stroke_width THEN u.stroke_color
    ELSE IF gl_FragCoord.y <= u.frame_size.y - u.rect_coords[4] + u.stroke_width
         THEN u.stroke_color
    ELSE IF gl_FragCoord.y >= u.frame_size.y - u.rect_coords[3] THEN u.stroke_color
    ELSE u.fill_color

\* void main(): the value written to gl_FragColor.
main(gl_FragCoord, u) ==
    IF gl_FragCoord.x >= u.rect_coords[2] - u.stroke_width THEN u.stroke_color
    ELSE IF gl_FragCoord.x <= u.rect_coords[1] + u.stroke_width THEN u.stroke_color
    ELSE IF gl_FragCoord.y <= u.frame_size.y - u.rect_coords[4] + u.stroke_width
         THEN u.stroke_color
    ELSE IF gl_FragCoord.y >= u.frame_size.y - u.rect_coords[3] - u.stroke_width
         THEN u.stroke_color
    ELSE u.fill_color

NoUniforms == Uniforms([w |-> 0, h |-> 0], [x1 |-> 0, x2 |-> 0, y1 |-> 0, y2 |-> 0],
                       0, "red", "red")

InitShader ==
    /\ viewport \in Viewports
    /\ uniforms = NoUniforms
    /\ framebuffer = [p \in Pixels(viewport) |-> "clear"]
    /\ frame_state = "cleared"

ShaderIdle ==
    /\ viewport = [w |-> 1, h |-> 1]
    /\ uniforms = NoUniforms
    /\ framebuffer = [p \in Pixels(viewport) |-> "clear"]
    /\ frame_state = "cleared"

\* One draw call of a rectangle node into the cleared frame: the uniforms are
\* set and main runs once for every fragment of the rectangle.
DrawRectangle ==
    /\ frame_state = "cleared"
    /\ \E r \in Rects(viewport), sw \in StrokeWidths, fill \in Colors, stroke \in Colors :
         LET u == Uniforms(viewport, r, sw, fill, stroke) IN
           /\ uniforms' = u
           /\ framebuffer' = [p \in Pixels(viewport) |->
                                 IF p \in Fragments(viewport, r)
                                 THEN main(FragCoord(p), u) ELSE "clear"]
    /\ frame_state' = "drawn"
    /\ UNCHANGED viewport

\* The start of the next frame: the framebuffer is cleared (and the uniforms
\* forgotten: the next draw sets every one of them).
ClearFrame ==
    /\ frame_state = "drawn"
    /\ framebuffer' = [p \in Pixels(viewport) |-> "clear"]
    /\ uniforms' = NoUniforms
    /\ frame_state' = "cleared"
    /\ UNCHANGED viewport

NextShader ==
    \/ DrawRectangle /\ UNCHANGED <<langVars, localizeVars, buildVars, clipVars>>
    \/ ClearFrame /\ UNCHANGED <<langVars, localizeVars, buildVars, clipVars>>

----------------------------------------------------------------------------
(* The claims about the shader, stated in the UI's coordinates: the pixel  *)
(* column c = p[1] and the pixel row counted from the top of the frame.    *)

\* The rectangle last drawn, in whole pixels.
DrawnRect ==
    [x1 |-> uniforms.rect_coords[1] \div 2, x2 |-> uniforms.rect_coords[2] \div 2,
     y1 |-> uniforms.rect_coords[3] \div 2, y2 |-> uniforms.rect_coords[4] \div 2]

RowFromTop(p) == viewport.h - 1 - p[2]

\* p lies in the n outermost pixel columns or rows of rectangle r.
InBorder(p, r, n) ==
    \/ p[1] < r.x1 + n
    \/ p[1] >= r.x2 - n
    \/ RowFromTop(p) < r.y1 + n
    \/ RowFromTop(p) >= r.y2 - n

\* C1: with an integer stroke width n, the fragments of the rectangle in its
\* n outermost pixel columns and rows have stroke_color, and every other
\* fragment of the rectangle has fill_color.
C1_StrokeIsBorder ==
    (frame_state = "drawn" /\ uniforms.stroke_width % 2 = 0) =>
        \A p \in Fragments(viewport, DrawnRect) :
            framebuffer[p] = IF InBorder(p, DrawnRect, uniforms.stroke_width \div 2)
                             THEN uniforms.stroke_color
                             ELSE uniforms.fill_color

\* The scenario: a 100x50 rectangle filling a 100x50 frame, stroke width 2,
\* fill red, stroke black: the corner pixel is black, the pixel at (2, 2) red.
C1_Witness ==
    /\ frame_state = "drawn"
    /\ viewport = [w |-> 100, h |-> 50]
    /\ DrawnRect = [x1 |-> 0, x2 |-> 100, y1 |-> 0, y2 |-> 50]
    /\ uniforms.stroke_width = 2 * 2
    /\ uniforms.fill_color = "red" /\ uniforms.stroke_color = "black"
    /\ framebuffer[<<1, 48>>] = "black"
    /\ framebuffer[<<2, 47>>] = "red"
    /\ framebuffer[<<97, 2>>] = "red"
    /\ framebuffer[<<98, 2>>] = "black"

\* C2: a stroke width of at least half the smaller side of the rectangle
\* (stroke_width, in half pixels, >= min(w, h) in pixels) leaves no fragment
\* of the rectangle with the fill: every one has stroke_color.
C2_WideStrokeCoversAll ==
    (/\ frame_state = "drawn"
     /\ uniforms.stroke_width >=
            Min(DrawnRect.x2 - DrawnRect.x1, DrawnRect.y2 - DrawnRect.y1)) =>
        \A p \in Fragments(viewport, DrawnRect) : framebuffer[p] = uniforms.stroke_color

\* A 3x2 rectangle with a stroke of exactly 1 pixel, colours distinct: its
\* middle column is covered only by the tests of the top and bottom edges.
C2_Witness ==
    /\ frame_state = "drawn"
    /\ DrawnRect.x2 - DrawnRect.x1 = 3
    /\ DrawnRect.y2 - DrawnRect.y1 = 2
    /\ uniforms.stroke_width = 2
    /\ uniforms.fill_color # uniforms.stroke_color
    /\ \A p \in Fragments(viewport, DrawnRect) : framebuffer[p] = uniforms.stroke_color

----------------------------------------------------------------------------
(***************************************************************************)
(* Package lang: the translated languages and the active localizer.        *)
(*                                                                         *)
(* A language tag is modelled by its canonical string (what Tag.String     *)
(* returns), an error by a record naming what failed, no error by Nil.     *)
(***************************************************************************)

\* Bounds of the inputs enumerated.
MaxFiles == 2
MaxTranslated == 3

\* No error, no message file, no localizer.
Nil == [nil |-> TRUE]

\* The language tags of the model, in the order strings.Compare gives them.
TagAlphabet == <<"de", "en", "pt-BR">>
Tags == {TagAlphabet[i] : i \in 1..Len(TagAlphabet)}
Rank(s) == CHOOSE i \in 1..Len(TagAlphabet) : TagAlphabet[i] = s

\* The orders an app sets: the default, none, two tags, a name that is no
\* tag's string form ("pt_BR"), a tag named twice.
Orders ==
    {<<"en">>, <<>>, <<"pt-BR", "en">>, <<"pt_BR", "de">>, <<"en", "de", "en">>}

PreferredLocales == {"", "fr", "pt_BR"}

\* What locale.GetLocales returns: the user's locales, or an error.
SysOutcomes ==
    {[all |-> <<"de_DE", "en_US">>, err |-> FALSE],
     [all |-> <<>>, err |-> TRUE]}

\* A translation file: "<lang>.json", which reads and parses ("ok"), cannot
\* be read ("unreadable") or does not parse ("malformed").
Files == [lang : Tags, cond : {"ok", "unreadable", "malformed"}]

RECURSIVE SeqsUpTo(_, _)
SeqsUpTo(S, n) ==
    IF n = 0 THEN {<<>>}
    ELSE LET shorter == SeqsUpTo(S, n - 1) IN
         shorter \cup {Append(q, x) : q \in {t \in shorter : Len(t) = n - 1}, x \in S}

\* A directory listing: ReadDir returns the entries sorted by file name,
\* each name once.
Listings ==
    {l \in SeqsUpTo(Files, MaxFiles) :
        \A i \in 1..Len(l), j \in 1..Len(l) : i < j => Rank(l[i].lang) < Rank(l[j].lang)}

ReadError(f) == [op |-> "ReadFile", name |-> f.lang]
ParseError(f) == [op |-> "ParseMessageFileBytes", name |-> f.lang]
DirError == [op |-> "ReadDir", name |-> "dir"]

\* bundle.ParseMessageFileBytes(data, name): the message file and no error,
\* or no message file (a nil pointer) and the error.
ParseMessageFileBytes(f) ==
    IF f.cond = "ok" THEN [f |-> [Tag |-> f.lang], err |-> Nil]
    ELSE [f |-> Nil, err |-> ParseError(f)]

\* addLanguage: f.Tag is read whatever err is; with f nil that is a nil
\* pointer dereference, a run-time panic, before anything is appended.
addLanguage(tr, file) ==
    LET p == ParseMessageFileBytes(file) IN
    IF p.f = Nil THEN [translated |-> tr, err |-> p.err, panic |-> TRUE]
    ELSE [translated |-> Append(tr, p.f.Tag), err |-> p.err, panic |-> FALSE]

\* The index the loop of orderLanguages leaves: that of the last entry of
\* languageOrder equal to s (from 0), or -1.
OrderIndex(s, order) ==
    LET I == {i \in 1..Len(order) : order[i] = s} IN
    IF I = {} THEN -1 ELSE (CHOOSE i \in I : \A j \in I : j <= i) - 1

\* A mutant of orderLanguages: languageOrder is ignored.
orderLanguages_alphabetical(a, b, order) == Rank(a) < Rank(b)

\* A mutant of orderLanguages: a tag that alone is in languageOrder comes last.
orderLanguages_namedlast(a, b, order) ==
    LET indexA == OrderIndex(a, order)
        indexB == OrderIndex(b, order) IN
    IF indexA # -1 /\ indexB # -1 THEN indexA < indexB
    ELSE IF indexA # -1 THEN FALSE
    ELSE IF indexB # -1 THEN TRUE
    ELSE Rank(a) < Rank(b)

orderLanguages(a, b, order) ==
    LET indexA == OrderIndex(a, order)
        indexB == OrderIndex(b, order) IN
    IF indexA # -1 /\ indexB # -1 THEN indexA < indexB
    ELSE IF indexA # -1 THEN TRUE
    ELSE IF indexB # -1 THEN FALSE
    ELSE Rank(a) < Rank(b)

\* sort.SliceStable(translated, orderLanguages): every element is inserted,
\* in turn, before the first element it is less than.
InsertStable(x, sorted, order) ==
    LET before == {i \in 1..Len(sorted) : orderLanguages(x, sorted[i], order)} IN
    IF before = {} THEN Append(sorted, x)
    ELSE LET k == CHOOSE i \in before : \A j \in before : i <= j IN
         SubSeq(sorted, 1, k - 1) \o <<x>> \o SubSeq(sorted, k, Len(sorted))

RECURSIVE SliceStableFrom(_, _, _, _)
SliceStableFrom(tr, i, sorted, order) ==
    IF i > Len(tr) THEN sorted
    ELSE SliceStableFrom(tr, i + 1, InsertStable(tr[i], sorted, order), order)

SliceStable(tr, order) == SliceStableFrom(tr, 1, <<>>, order)

\* A mutant of LocaleList: the preferred locale is added to the system's
\* locales instead of replacing them.
LocaleList_prepend(pref, sys) ==
    LET all == IF sys.err THEN <<"en">> ELSE sys.all IN
    IF pref # "" THEN <<pref>> \o all ELSE all

\* The locale list updateLocalizer looks a translation up for.
LocaleList(pref, sys) ==
    LET all == IF sys.err THEN <<"en">> ELSE sys.all IN
    IF pref # "" THEN <<pref>> ELSE all

\* The localizer of the closest supported locale of the list all.
NewLocalizer(all) == [closestSupportedLocale |-> all]

\* updateLocalizer on the package state st, GetLocales returning sys.
updateLocalizer(st, sys) ==
    [st EXCEPT !.translated = SliceStable(st.translated, st.languageOrder),
               !.localizer = NewLocalizer(LocaleList(st.preferredLanguage, sys))]

\* The loop of AddTranslationsFS from file i on.
RECURSIVE FSLoop(_, _, _, _)
FSLoop(files, i, tr, retErr) ==
    IF i > Len(files) THEN [translated |-> tr, retErr |-> retErr, panic |-> FALSE]
    ELSE LET f == files[i] IN
         IF f.cond = "unreadable"
         THEN FSLoop(files, i + 1, tr, IF retErr = Nil THEN ReadError(f) ELSE retErr)
         ELSE LET a == addLanguage(tr, f) IN
              IF a.panic THEN [translated |-> a.translated, retErr |-> retErr, panic |-> TRUE]
              ELSE FSLoop(files, i + 1, a.translated,
                          IF a.err # Nil /\ retErr = Nil THEN a.err ELSE retErr)

\* The package state as a record, and back.
LangState ==
    [languageOrder |-> languageOrder, preferredLanguage |-> preferredLanguage,
     translated |-> translated, localizer |-> localizer]

SetLangState(st) ==
    /\ languageOrder' = st.languageOrder
    /\ preferredLanguage' = st.preferredLanguage
    /\ translated' = st.translated
    /\ localizer' = st.localizer

Call(op, files, dirErr, ret, updates) ==
    [op |-> op, files |-> files, dirErr |-> dirErr, before |-> translated,
     ret |-> ret, updates |-> updates]

\* AddTranslationsFS(fs, dir) on state st: the state it leaves, what it
\* returns, how often it ran updateLocalizer and whether it panicked.
AddTranslationsFSOn(st, dirErr, files, sys) ==
    IF dirErr THEN [st |-> st, ret |-> DirError, updates |-> 0, panic |-> FALSE]
    ELSE LET l == FSLoop(files, 1, st.translated, Nil) IN
         IF l.panic
         THEN [st |-> [st EXCEPT !.translated = l.translated], ret |-> Nil,
               updates |-> 0, panic |-> TRUE]
         ELSE [st |-> updateLocalizer([st EXCEPT !.translated = l.translated], sys),
               ret |-> l.retErr, updates |-> 1, panic |-> FALSE]

\* The translations embedded in the package, as ReadDir lists them.
BuiltinTranslations == <<[lang |-> "en", cond |-> "ok"]>>

\* The package before init(): the declarations of lines 39-51.
Declared ==
    [languageOrder |-> <<"en">>, preferredLanguage |-> "", translated |-> <<>>,
     localizer |-> Nil]

\* After init(): AddTranslationsFS(translations, "translations").
InitLang ==
    \E sys \in SysOutcomes :
        LET r == AddTranslationsFSOn(Declared, FALSE, BuiltinTranslations, sys) IN
        /\ languageOrder = r.st.languageOrder
        /\ preferredLanguage = r.st.preferredLanguage
        /\ translated = r.st.translated
        /\ localizer = r.st.localizer
        /\ sysLocales = sys
        /\ lastCall = [op |-> "AddTranslationsFS", files |-> BuiltinTranslations,
                       dirErr |-> FALSE, before |-> <<>>, ret |-> r.ret,
                       updates |-> r.updates]
        /\ panicked = r.panic

LangIdle ==
    LET sys == [all |-> <<"de_DE", "en_US">>, err |-> FALSE]
        r == AddTranslationsFSOn(Declared, FALSE, BuiltinTranslations, sys) IN
    /\ languageOrder = r.st.languageOrder
    /\ preferredLanguage = r.st.preferredLanguage
    /\ translated = r.st.translated
    /\ localizer = r.st.localizer
    /\ sysLocales = sys
    /\ lastCall = [op |-> "AddTranslationsFS", files |-> BuiltinTranslations,
                   dirErr |-> FALSE, before |-> <<>>, ret |-> r.ret, updates |-> r.updates]
    /\ panicked = r.panic

\* AddTranslations(r) and AddTranslationsForLocale(data, l): updateLocalizer
\* is deferred, so it runs when addLanguage returns and when it panics.
AddOne(op, file) ==
    /\ ~panicked
    /\ Len(translated) < MaxTranslated
    /\ \E sys \in SysOutcomes :
        LET a == addLanguage(translated, file) IN
        /\ SetLangState(updateLocalizer([LangState EXCEPT !.translated = a.translated], sys))
        /\ sysLocales' = sys
        /\ lastCall' = Call(op, <<file>>, FALSE, IF a.panic THEN Nil ELSE a.err, 1)
        /\ panicked' = a.panic

AddTranslations ==
    \E file \in {f \in Files : f.cond # "unreadable"} : AddOne("AddTranslations", file)

AddTranslationsForLocale ==
    \E file \in {f \in Files : f.cond # "unreadable"} :
        AddOne("AddTranslationsForLocale", file)

AddTranslationsFS ==
    /\ ~panicked
    /\ \E dirErr \in BOOLEAN, files \in Listings, sys \in SysOutcomes :
        /\ dirErr => (files = <<>> /\ sys = sysLocales)
        /\ Len(translated) + Len(files) <= MaxTranslated
        /\ LET r == AddTranslationsFSOn(LangState, dirErr, files, sys) IN
           /\ SetLangState(r.st)
           /\ sysLocales' = IF r.updates > 0 THEN sys ELSE sysLocales
           /\ lastCall' = Call("AddTranslationsFS", files, dirErr, r.ret, r.updates)
           /\ panicked' = r.panic

SetLanguageOrder ==
    /\ ~panicked
    /\ \E order \in Orders, sys \in SysOutcomes :
        /\ SetLangState(updateLocalizer([LangState EXCEPT !.languageOrder = order], sys))
        /\ sysLocales' = sys
        /\ lastCall' = Call("SetLanguageOrder", <<>>, FALSE, Nil, 1)
    /\ UNCHANGED panicked

SetPreferredLocale ==
    /\ ~panicked
    /\ \E locale \in PreferredLocales, sys \in SysOutcomes :
        /\ SetLangState(updateLocalizer([LangState EXCEPT !.preferredLanguage = locale], sys))
        /\ sysLocales' = sys
        /\ lastCall' = Call("SetPreferredLocale", <<>>, FALSE, Nil, 1)
    /\ UNCHANGED panicked

NextLang ==
    \/ AddTranslations /\ UNCHANGED <<shaderVars, localizeVars, buildVars, clipVars>>
    \/ AddTranslationsForLocale /\ UNCHANGED <<shaderVars, localizeVars, buildVars, clipVars>>
    \/ AddTranslationsFS /\ UNCHANGED <<shaderVars, localizeVars, buildVars, clipVars>>
    \/ SetLanguageOrder /\ UNCHANGED <<shaderVars, localizeVars, buildVars, clipVars>>
    \/ SetPreferredLocale /\ UNCHANGED <<shaderVars, localizeVars, buildVars, clipVars>>

----------------------------------------------------------------------------
(* The claims about the translated languages and the localizer.            *)

Named(s, order) == \E i \in 1..Len(order) : order[i] = s

\* a may stand before b in a list sorted by the language order: a named tag
\* before an unnamed one, two named tags as languageOrder lists them (at some
\* place it names each), two unnamed tags alphabetically.
MayPrecede(a, b, order) ==
    IF Named(a, order) /\ Named(b, order)
    THEN \E i \in 1..Len(order), j \in 1..Len(order) :
            order[i] = a /\ order[j] = b /\ i <= j
    ELSE IF Named(a, order) THEN TRUE
    ELSE IF Named(b, order) THEN FALSE
    ELSE Rank(a) <= Rank(b)

\* C4: while a preferred locale is set the localizer is the one chosen from
\* the list [preferredLanguage] alone, whatever was called since; with none
\* set it is the one chosen from the system's locales as last read, or from
\* ["en"] when they could not be read.
C4_PreferredLocaleOverrides ==
    /\ preferredLanguage # "" => localizer = NewLocalizer(<<preferredLanguage>>)
    /\ preferredLanguage = "" =>
          localizer = NewLocalizer(IF sysLocales.err THEN <<"en">> ELSE sysLocales.all)

\* A preferred locale was set, a later call read other system locales, and
\* the localizer is still that of the preferred locale.
C4_Witness ==
    /\ preferredLanguage = "pt_BR"
    /\ lastCall.op = "AddTranslationsFS" /\ lastCall.updates = 1
    /\ lastCall.files # <<>>
    /\ sysLocales = [all |-> <<"de_DE", "en_US">>, err |-> FALSE]
    /\ localizer = NewLocalizer(<<"pt_BR">>)

FirstError(files) ==
    LET bad == {i \in 1..Len(files) : files[i].cond # "ok"} IN
    IF bad = {} THEN Nil
    ELSE LET k == CHOOSE i \in bad : \A j \in bad : i <= j IN
         IF files[k].cond = "unreadable" THEN ReadError(files[k]) ELSE ParseError(files[k])

Count(s, q) == Cardinality({i \in 1..Len(q) : q[i] = s})
CountGood(s, files) ==
    Cardinality({i \in 1..Len(files) : files[i].cond = "ok" /\ files[i].lang = s})

\* C6: AddTranslationsFS loads every file that reads and parses, whatever the
\* files before it did, returns the first failing file's error (nil without
\* one) and refreshes the localizer once; with the directory unreadable it
\* returns that error, adds nothing and does not refresh.
C6_FSLoadsEveryFile ==
    lastCall.op = "AddTranslationsFS" =>
        IF lastCall.dirErr
        THEN /\ ~panicked
             /\ lastCall.ret = DirError
             /\ translated = lastCall.before
             /\ lastCall.updates = 0
        ELSE /\ ~panicked
             /\ lastCall.ret = FirstError(lastCall.files)
             /\ \A s \in Tags :
                   Count(s, translated) = Count(s, lastCall.before) + CountGood(s, lastCall.files)
             /\ lastCall.updates = 1

\* The statement of C6 holds of every call none of whose files fails to
\* parse (unreadable files included): the loop goes on after a file that
\* cannot be read.
C6_HoldsWithoutParseFailure ==
    (\A i \in 1..Len(lastCall.files) : lastCall.files[i].cond # "malformed")
        => C6_FSLoadsEveryFile

\* An unreadable file, then a good one: the good one is added and the
\* error returned is that of the unreadable one.
C6_UnreadableFileSkipped ==
    /\ lastCall.op = "AddTranslationsFS" /\ ~lastCall.dirErr /\ ~panicked
    /\ Len(lastCall.files) = 2
    /\ lastCall.files[1].cond = "unreadable" /\ lastCall.files[2].cond = "ok"
    /\ lastCall.ret = ReadError(lastCall.files[1])

----------------------------------------------------------------------------
(***************************************************************************)
(* Package lang: LocalizeKey and LocalizePluralKey.                        *)
(*                                                                         *)
(* A string is a sequence of pieces.  A piece of a template is literal     *)
(* text, the action {{.Name}} ("field") or an action that is not closed    *)
(* ("open"), which text/template does not parse.  Template data is a map   *)
(* or a struct that has the field Name or has not; no data is nil.         *)
(***************************************************************************)

MaxData == 2

Text(str) == [kind |-> "text", s |-> str]
Field == [kind |-> "field", s |-> "Name"]
Open == [kind |-> "open", s |-> "{{"]

Fallbacks ==
    {<<Text("Hello")>>,
     <<Text("Hello "), Field, Text("!")>>,
     <<Field, Text(" and "), Field>>,
     <<Text("Hello "), Open, Text(".Name")>>}

Keys == {<<Text("greeting")>>, <<Text("Hello")>>}

NilData == [kind |-> "nil", has |-> FALSE, Name |-> ""]
DataValues ==
    {[kind |-> "map", has |-> TRUE, Name |-> "World"],
     [kind |-> "map", has |-> TRUE, Name |-> "Monde"],
     [kind |-> "map", has |-> FALSE, Name |-> ""],
     [kind |-> "struct", has |-> FALSE, Name |-> ""]}

DataArgs == SeqsUpTo(DataValues, MaxData)

PluralCounts == {1, 2}

NotFound == [op |-> "Localize", name |-> "message not found"]

\* What localizer.Localize returns: a translation and no error, or an
\* error, with or without a string beside it.
LocalizeOutcomes ==
    {[ret |-> <<Text("Bonjour")>>, err |-> Nil],
     [ret |-> <<>>, err |-> NotFound],
     [ret |-> <<Text("default")>>, err |-> NotFound]}

\* template.New(key).Parse(fallback)
Parse(key, fallback) ==
    IF \E i \in 1..Len(fallback) : fallback[i].kind = "open"
    THEN [tree |-> <<>>, err |-> [op |-> "Parse", name |-> "unclosed action"]]
    ELSE [tree |-> fallback, err |-> Nil]

\* t.Execute(str, data): the text written to str, and the error.  A field
\* nil data or a map has not prints "<no value>"; a field a struct has not
\* is an error, which ends the execution with what was written so far.
RECURSIVE ExecuteFrom(_, _, _, _)
ExecuteFrom(tree, i, data, out) ==
    IF i > Len(tree) THEN [out |-> out, err |-> Nil]
    ELSE IF tree[i].kind = "text" THEN ExecuteFrom(tree, i + 1, data, Append(out, tree[i]))
    ELSE IF data.kind = "struct" /\ ~data.has
         THEN [out |-> out, err |-> [op |-> "Execute", name |-> "can't evaluate field"]]
    ELSE IF data.has THEN ExecuteFrom(tree, i + 1, data, Append(out, Text(data.Name)))
    ELSE ExecuteFrom(tree, i + 1, data, Append(out, Text("<no value>")))

Execute(tree, data) == ExecuteFrom(tree, 1, data, <<>>)

\* A mutant of fallbackWithData: the template is executed without the data.
fallbackWithData_nodata(key, fallback, data) ==
    LET t == Parse(key, fallback) IN
    IF t.err # Nil THEN fallback ELSE Execute(t.tree, NilData).out

fallbackWithData(key, fallback, data) ==
    LET t == Parse(key, fallback) IN
    IF t.err # Nil THEN fallback ELSE Execute(t.tree, data).out

\* LocalizeKey(key, fallback, data...), localizer.Localize returning loc.
LocalizeKey(key, fallback, data, loc) ==
    LET d0 == IF Len(data) > 0 THEN data[1] ELSE NilData IN
    IF loc.err # Nil THEN fallbackWithData(key, fallback, d0) ELSE loc.ret

\* LocalizePluralKey(key, fallback, count, data...)
LocalizePluralKey(key, fallback, count, data, loc) ==
    LET d0 == IF Len(data) > 0 THEN data[1] ELSE NilData IN
    IF loc.err # Nil THEN fallbackWithData(key, fallback, d0) ELSE loc.ret

Localized(op, key, fallback, count, data, loc, ret) ==
    [op |-> op, key |-> key, fallback |-> fallback, count |-> count, data |-> data,
     loc |-> loc, ret |-> ret]

NoCall == Localized("none", <<>>, <<>>, 0, <<>>, [ret |-> <<>>, err |-> Nil], <<>>)

InitLocalize == localized = NoCall

\* Localize(in, data...) is LocalizeKey(in, in, data...).
CallLocalize ==
    /\ localized = NoCall
    /\ \E in \in Fallbacks, data \in DataArgs, loc \in LocalizeOutcomes :
        localized' = Localized("Localize", in, in, 0, data, loc,
                               LocalizeKey(in, in, data, loc))

CallLocalizeKey ==
    /\ localized = NoCall
    /\ \E key \in Keys, fallback \in Fallbacks, data \in DataArgs,
          loc \in LocalizeOutcomes :
        localized' = Localized("LocalizeKey", key, fallback, 0, data, loc,
                               LocalizeKey(key, fallback, data, loc))

\* LocalizePlural(in, count, data...) is LocalizePluralKey(in, in, count, data...).
CallLocalizePlural ==
    /\ localized = NoCall
    /\ \E in \in Fallbacks, count \in PluralCounts, data \in DataArgs,
          loc \in LocalizeOutcomes :
        localized' = Localized("LocalizePlural", in, in, count, data, loc,
                               LocalizePluralKey(in, in, count, data, loc))

CallLocalizePluralKey ==
    /\ localized = NoCall
    /\ \E key \in Keys, fallback \in Fallbacks, count \in PluralCounts,
          data \in DataArgs, loc \in LocalizeOutcomes :
        localized' = Localized("LocalizePluralKey", key, fallback, count, data, loc,
                               LocalizePluralKey(key, fallback, count, data, loc))

\* The caller has taken the string returned.
Returned ==
    /\ localized # NoCall
    /\ localized' = NoCall

NextLocalize ==
    \/ CallLocalize /\ UNCHANGED <<shaderVars, langVars, buildVars, clipVars>>
    \/ CallLocalizeKey /\ UNCHANGED <<shaderVars, langVars, buildVars, clipVars>>
    \/ CallLocalizePlural /\ UNCHANGED <<shaderVars, langVars, buildVars, clipVars>>
    \/ CallLocalizePluralKey /\ UNCHANGED <<shaderVars, langVars, buildVars, clipVars>>
    \/ Returned /\ UNCHANGED <<shaderVars, langVars, buildVars, clipVars>>

----------------------------------------------------------------------------
(* The claim about LocalizeKey and LocalizePluralKey.                      *)

\* The fallback with the data d applied: its pieces up to the first action
\* that cannot be evaluated, each text as it is, each action replaced by the
\* value d gives it.
Applied(fallback, d) ==
    LET failing == {i \in 1..Len(fallback) :
                        fallback[i].kind = "field" /\ d.kind = "struct" /\ ~d.has}
        n == IF failing = {} THEN Len(fallback)
             ELSE (CHOOSE i \in failing : \A j \in failing : i <= j) - 1 IN
    [i \in 1..n |->
        IF fallback[i].kind = "text" THEN fallback[i]
        ELSE IF d.has THEN Text(d.Name) ELSE Text("<no value>")]

FirstData(data) == IF data = <<>> THEN NilData ELSE Head(data)

----------------------------------------------------------------------------
(***************************************************************************)
(* The build command: Builder.build.                                       *)
(*                                                                         *)
(* An environment entry NAME=value is the pair <<NAME, value>>.  A runner  *)
(* is modelled by the tool it runs; its log holds each run of the tool     *)
(* with the directory, environment and arguments set at that time.         *)
(***************************************************************************)

\* The values of --target: none, desktop systems, the mobile platforms of
\* the flag's usage text, the two web targets.
TargetFlags ==
    {"", "linux", "darwin", "windows", "ios", "android", "android/arm64",
     "gopherjs", "wasm"}

\* The GOOS environment variable: unset, or set (to nothing, too).
GoosEnvs ==
    {[set |-> FALSE, value |-> ""], [set |-> TRUE, value |-> ""],
     [set |-> TRUE, value |-> "windows"],
     [set |-> TRUE, value |-> "wasm"], [set |-> TRUE, value |-> "ios"]}

\* runtime.GOOS
Hosts == {"linux", "darwin"}

TagLists == {<<>>, <<"debug">>}
Executables == {"", "app.exe"}
GoPackages == {"", "./cmd/app"}

\* What `go version` gives: the run fails, output that is not that of
\* `go version`, a version the constraint rejects, one it accepts.
GoVersions == {"failed", "invalid", "old", "ok"}

\* os.Environ()
Environ(goosEnv) ==
    <<<<"PATH", "/usr/bin">>>> \o
        (IF goosEnv.set THEN <<<<"GOOS", goosEnv.value>>>> ELSE <<>>)

\* strings.Join(tags, ",") of the tag lists that occur.
Join(tags) ==
    CASE tags = <<>> -> ""
      [] tags = <<"debug">> -> "debug"
      [] tags = <<"release">> -> "release"
      [] tags = <<"debug", "release">> -> "debug,release"

targetOS(goosEnv, host) == IF goosEnv.set THEN goosEnv.value ELSE host

\* A mutant of isWeb: only wasm counts as a web target.
isWeb_wasmonly(goos) == goos = "wasm"

isWeb(goos) == goos = "gopherjs" \/ goos = "wasm"

NoConstraint == [nil |-> TRUE]

\* checkVersion(output, versionConstraint)
checkVersion(output, versionConstraint) ==
    IF output = "invalid" THEN [op |-> "checkVersion", name |-> "invalid output"]
    ELSE IF output = "old" THEN [op |-> "checkVersion", name |-> "expected go version"]
    ELSE Nil

\* checkGoVersion(runner, versionConstraint): the error, and the runs made.
checkGoVersion(runner, versionConstraint, goVersion) ==
    IF versionConstraint = NoConstraint THEN [err |-> Nil, log |-> <<>>]
    ELSE LET run == [tool |-> runner, dir |-> "", env |-> <<>>, args |-> <<"version">>] IN
         IF goVersion = "failed"
         THEN [err |-> [op |-> "runOutput", name |-> "version"], log |-> <<run>>]
         ELSE [err |-> checkVersion(goVersion, versionConstraint), log |-> <<run>>]

\* (b *Builder) build(), in the environment goosEnv on the host, `go version`
\* giving goVersion and the build run failing or not.
build(b, goosEnv, host, goVersion, runErr) ==
    LET goos == IF b.os = "" THEN targetOS(goosEnv, host) ELSE b.os
        runner == IF b.runner # Nil THEN b.runner
                  ELSE IF goos # "gopherjs" THEN "go" ELSE "gopherjs"
        env1 == Environ(goosEnv) \o
                  (IF goos = "darwin"
                   THEN <<<<"CGO_CFLAGS", "-mmacosx-version-min=10.11">>,
                          <<"CGO_LDFLAGS", "-mmacosx-version-min=10.11">>>>
                   ELSE <<>>)
        env2 == IF ~isWeb(goos) THEN Append(env1, <<"CGO_ENABLED", "1">>) ELSE env1
        args1 == <<"build">> \o
                  (IF ~isWeb(goos)
                   THEN IF goos = "windows"
                        THEN IF b.release THEN <<"-ldflags", "-s -w -H=windowsgui">>
                             ELSE <<"-ldflags", "-H=windowsgui">>
                        ELSE IF b.release THEN <<"-ldflags", "-s -w">> ELSE <<>>
                   ELSE <<>>)
        args2 == IF b.target # "" THEN args1 \o <<"-o", b.target>> ELSE args1
        tags == IF b.release THEN Append(b.tags, "release") ELSE b.tags
        args3 == IF Len(tags) > 0
                 THEN args2 \o <<IF goos = "gopherjs" THEN "--tags" ELSE "-tags", Join(tags)>>
                 ELSE args2
        args == IF b.goPackage # "" THEN Append(args3, b.goPackage) ELSE args3
        versionConstraint == IF goos = "wasm" THEN [min |-> ">=1.17"] ELSE NoConstraint
        env == IF goos # "ios" /\ goos # "android" /\ ~isWeb(goos)
               THEN Append(env2, <<"GOOS", goos>>)
               ELSE IF goos = "wasm"
                    THEN env2 \o <<<<"GOARCH", "wasm">>, <<"GOOS", "js">>>>
                    ELSE env2
        check == checkGoVersion(runner, versionConstraint, goVersion)
        res == [b |-> [b EXCEPT !.runner = runner], goos |-> goos,
                environ |-> Environ(goosEnv), env |-> env, args |-> args,
                log |-> check.log, err |-> check.err]
    IN IF check.err # Nil THEN res
       ELSE [res EXCEPT
                !.log = Append(check.log,
                               [tool |-> runner, dir |-> b.srcdir, env |-> env, args |-> args]),
                !.err = IF runErr THEN [op |-> "runOutput", name |-> "build"] ELSE Nil]

\* The Builder the build command makes (b := &Builder{}), its fields set
\* from the flags; Build() has split the tags.
Builders ==
    {[os |-> o, srcdir |-> "app", target |-> t, goPackage |-> g, release |-> r,
      tags |-> tg, runner |-> Nil] :
        o \in TargetFlags, t \in Executables, g \in GoPackages, r \in BOOLEAN,
        tg \in TagLists}

InitBuild == built = [op |-> "none"]

\* One run of the build command: the flags are parsed into the Builder and
\* Build() calls build().
Build ==
    /\ built.op = "none"
    /\ \E b \in Builders, goosEnv \in GoosEnvs, host \in Hosts, goVersion \in GoVersions,
          runErr \in BOOLEAN :
        built' = [op |-> "build", in |-> b, goosEnv |-> goosEnv, host |-> host,
                  out |-> build(b, goosEnv, host, goVersion, runErr)]

NextBuild ==
    Build /\ UNCHANGED <<shaderVars, langVars, localizeVars, clipVars>>

----------------------------------------------------------------------------
(* The claim about Builder.build.                                          *)

\* The target OS: --target, else GOOS, else the host's.
TargetOf(b, goosEnv, host) ==
    IF b.os # "" THEN b.os ELSE IF goosEnv.set THEN goosEnv.value ELSE host

\* The entries build appends to the environment for a target.
Appended(target) ==
    (IF target \notin {"ios", "android", "gopherjs", "wasm"}
     THEN {<<"GOOS", target>>, <<"CGO_ENABLED", "1">>} ELSE {})
    \cup (IF target = "wasm" THEN {<<"GOARCH", "wasm">>, <<"GOOS", "js">>} ELSE {})
    \cup (IF target \in {"ios", "android"} THEN {<<"CGO_ENABLED", "1">>} ELSE {})
    \cup (IF target = "darwin"
          THEN {<<"CGO_CFLAGS", "-mmacosx-version-min=10.11">>,
                <<"CGO_LDFLAGS", "-mmacosx-version-min=10.11">>}
          ELSE {})

ToolOf(target) == IF target = "gopherjs" THEN "gopherjs" ELSE "go"

\* C7: the environment build hands on is os.Environ() followed by exactly
\* the entries of the target; its runner is gopherjs for target gopherjs and
\* go for any other; its arguments start with "build"; and every run it
\* makes to build has that tool, environment and arguments.
C7_BuildEnvironment ==
    built.op = "build" =>
        LET target == TargetOf(built.in, built.goosEnv, built.host)
            out == built.out
            n == Len(out.environ) IN
        /\ Len(out.env) >= n
        /\ SubSeq(out.env, 1, n) = out.environ
        /\ {out.env[i] : i \in (n + 1)..Len(out.env)} = Appended(target)
        /\ Len(out.env) - n = Cardinality(Appended(target))
        /\ out.b.runner = ToolOf(target)
        /\ out.args[1] = "build"
        /\ \A i \in 1..Len(out.log) :
              /\ out.log[i].tool = ToolOf(target)
              /\ out.log[i].args # <<"version">> =>
                    /\ out.log[i].args = out.args
                    /\ out.log[i].env = out.env
        /\ out.err = Nil => (out.log # <<>> /\ out.log[Len(out.log)].args = out.args)

\* GOOS=wasm in the environment and no --target: go version, then go build
\* with GOARCH=wasm and GOOS=js appended after the environment's own GOOS.
C7_Witness ==
    /\ built.op = "build"
    /\ built.in.os = "" /\ built.goosEnv = [set |-> TRUE, value |-> "wasm"]
    /\ built.out.err = Nil
    /\ Len(built.out.log) = 2
    /\ built.out.log[2].tool = "go"
    /\ built.out.log[2].args[1] = "build"
    /\ built.out.log[2].env =
          <<<<"PATH", "/usr/bin">>, <<"GOOS", "wasm">>, <<"GOARCH", "wasm">>, <<"GOOS", "js">>>>

----------------------------------------------------------------------------
(***************************************************************************)
(* The clip stack of the painter.  A clip region is an axis-aligned        *)
(* rectangle in device pixels, [x, y, w, h]; the stack holds, for every    *)
(* push, the region pushed and the effective clip the push gave.           *)
(***************************************************************************)

MaxCoord == 1
MaxDepth == 2

ClipA == [x |-> 0, y |-> 0, w |-> 50, h |-> 50]
ClipB == [x |-> 25, y |-> 25, w |-> 50, h |-> 50]

\* The regions pushed: every rectangle with corners in 0..MaxCoord (those of
\* no area too), and the two of the scenario.
Regions ==
    {r \in [x : 0..MaxCoord, y : 0..MaxCoord, w : 0..MaxCoord, h : 0..MaxCoord] :
        r.x + r.w <= MaxCoord /\ r.y + r.h <= MaxCoord}
    \cup {ClipA, ClipB}

NoClip == [none |-> TRUE]

\* A mutant of Intersect: a degenerate intersection keeps its negative size.
Intersect_unclamped(a, b) ==
    LET x == Max(a.x, b.x)
        y == Max(a.y, b.y) IN
    [x |-> x, y |-> y,
     w |-> Min(a.x + a.w, b.x + b.w) - x,
     h |-> Min(a.y + a.h, b.y + b.h) - y]

\* The intersection of two clip regions, of zero area when they are disjoint.
Intersect(a, b) ==
    LET x == Max(a.x, b.x)
        y == Max(a.y, b.y) IN
    [x |-> x, y |-> y,
     w |-> Max(0, Min(a.x + a.w, b.x + b.w) - x),
     h |-> Max(0, Min(a.y + a.h, b.y + b.h) - y)]

\* The effective clip: that of the innermost push, none on an empty stack.
Effective(stack) == IF stack = <<>> THEN NoClip ELSE stack[Len(stack)].effective

\* The effective clip after a push of region (NoClip: the node has no clip
\* region) onto the stack.
Pushed(stack, region) ==
    IF region = NoClip THEN Effective(stack)
    ELSE IF Effective(stack) = NoClip THEN region
    ELSE Intersect(Effective(stack), region)

NoPop == [left |-> NoClip, now |-> NoClip, prior |-> NoClip]

InitClip ==
    /\ clips = <<>>
    /\ popped = NoPop

\* push(clip?): on entry to a subtree; the effective clip becomes its
\* intersection with the region.  (prior notes the effective clip found.)
Push ==
    /\ Len(clips) < MaxDepth
    /\ \E region \in Regions \cup {NoClip} :
        clips' = Append(clips, [region |-> region,
                                effective |-> Pushed(clips, region),
                                prior |-> Effective(clips)])
    /\ popped' = NoPop

\* pop(): on exit from the subtree; the innermost push is undone.
Pop ==
    /\ clips # <<>>
    /\ clips' = SubSeq(clips, 1, Len(clips) - 1)
    /\ popped' = [left |-> Effective(clips), now |-> Effective(clips'),
                  prior |-> clips[Len(clips)].prior]

NextClip ==
    \/ Push /\ UNCHANGED <<shaderVars, langVars, localizeVars, buildVars>>
    \/ Pop /\ UNCHANGED <<shaderVars, langVars, localizeVars, buildVars>>

----------------------------------------------------------------------------
(* The claim about the clip stack.                                         *)

Inside(px, py, r) == r.x <= px /\ px < r.x + r.w /\ r.y <= py /\ py < r.y + r.h

\* The pixel columns and rows at which a rectangle of rs starts or ends:
\* between two of them next to each other every pixel is inside the same
\* rectangles of rs.
EdgesX(rs) == {r.x : r \in rs} \cup {r.x + r.w : r \in rs}
EdgesY(rs) == {r.y : r \in rs} \cup {r.y + r.h : r \in rs}

\* The clip regions on the stack.
RegionsOn(stack) == {stack[i].region : i \in 1..Len(stack)} \ {NoClip}

\* C8: with regions on the stack the effective clip has no negative width
\* or height and holds exactly the pixels that are in every one of them
\* (with none there is no clip); and a pop leaves the effective clip that
\* held before the matching push.
C8_EffectiveClipIsIntersection ==
    /\ LET e == Effective(clips)
           rs == RegionsOn(clips) IN
       IF rs = {} THEN e = NoClip
       ELSE /\ e # NoClip
            /\ e.w >= 0 /\ e.h >= 0
            /\ \A px \in EdgesX(rs \cup {e}), py \in EdgesY(rs \cup {e}) :
                  Inside(px, py, e) <=> \A r \in rs : Inside(px, py, r)
    /\ popped.now = popped.prior

\* The scenario: A, then B, gave the effective clip (25, 25, 25, 25), and
\* one pop has left A.
C8_Witness ==
    /\ Len(clips) = 1 /\ clips[1].region = ClipA
    /\ popped.left = [x |-> 25, y |-> 25, w |-> 25, h |-> 25]
    /\ popped.now = ClipA

----------------------------------------------------------------------------
LocalizeIdle == localized = NoCall

BuildIdle == built = [op |-> "none"]

ClipIdle == clips = <<>> /\ popped = NoPop

InitShaderSpec == InitShader /\ LangIdle /\ LocalizeIdle /\ BuildIdle /\ ClipIdle

SpecShader == InitShaderSpec /\ [][NextShader]_vars

InitLangSpec == ShaderIdle /\ InitLang /\ LocalizeIdle /\ BuildIdle /\ ClipIdle

SpecLang == InitLangSpec /\ [][NextLang]_vars

InitLocalizeSpec == ShaderIdle /\ LangIdle /\ InitLocalize /\ BuildIdle /\ ClipIdle

SpecLocalize == InitLocalizeSpec /\ [][NextLocalize]_vars

InitBuildSpec == ShaderIdle /\ LangIdle /\ LocalizeIdle /\ InitBuild /\ ClipIdle

SpecBuild == InitBuildSpec /\ [][NextBuild]_vars

InitClipSpec == ShaderIdle /\ LangIdle /\ LocalizeIdle /\ BuildIdle /\ InitClip

SpecClip == InitClipSpec /\ [][NextClip]_vars

=============================================================================
